---- MODULE Spec2Model ----
(***************************************************************************)
(* Model of the Freedom Fighters boss server (server/server.js, the later  *)
(* variant of the file: the full-state slot report, the admin surface,     *)
(* the bounded event log, the broadcast and the WLED lighting adapter).    *)
(*                                                                         *)
(* JSON inputs are modelled by their kind, so that the coercions the       *)
(* handlers apply (Boolean(s), Number(hp), typeof enabled) are computed.   *)
(* Arrays are sequences; a slot index i of the code (0..6) is position     *)
(* i + 1 of the sequence.  Numbers that may carry a fraction are held in   *)
(* tenths.                                                                 *)
(***************************************************************************)
EXTENDS Integers, Sequences, FiniteSets, TLC

\* ---------------------------------------------------------- record fields
\* The fields of the JSON objects of the server (request bodies, responses,
\* state snapshots, log entries, lighting requests), numbered in the order
\* in which every record of this module lists them.  TLC keeps a record's
\* fields sorted by first appearance in the module; a record written in
\* that order is never re-sorted while another worker reads it.
FieldOrder ==
    [at |-> 1, body |-> 2, bossHp |-> 3, connected |-> 4,
     crystalCount |-> 5, damage |-> 6, elems |-> 7, enabled |-> 8,
     gameOver |-> 9, hp |-> 10, hpDamageEnabled |-> 11, id |-> 12,
     ignored |-> 13, inserts |-> 14, isArray |-> 15, kind |-> 16,
     log |-> 17, maxHp |-> 18, nan |-> 19, ok |-> 20, op |-> 21,
     pending |-> 22, recentEvents |-> 23, seg |-> 24, sent |-> 25,
     slot |-> 26, slots |-> 27, snap |-> 28, state |-> 29, status |-> 30,
     tenths |-> 31, totalCrystalsReceived |-> 32, ts |-> 33, type |-> 34,
     value |-> 35]

\* ------------------------------------------------------------ constants
BOSS_MAX_HP == 100
HP_PER_CRYSTAL == 10
MAX_RECENT_EVENTS == 20
SLOT_COUNT == 7
WLED_CANDLE_MULTI_FX == 102

\* ---------------------------------------------------------------- bounds
\* Number of requests (accepted or rejected) and lighting callbacks handled
\* in one behaviour.
MaxOps == 3
\* Number of requests handled in one behaviour of the lighting
\* specification, where the callbacks of the lighting requests are not
\* counted (at most three per request, so that they always run out).
MaxLightReqs == 2

\* BOSS_MAX_HP is read from the environment; the default and a value that
\* seven crystals can exhaust.
MaxHpChoices == {BOSS_MAX_HP, BOSS_MAX_HP \div 2}
\* WLED_URL is read from the environment; empty disables lighting.
WledUrlChoices == {"", "http://wled"}

VARIABLES
    maxHp, bossHp, crystalCount, totalCrystalsReceived, slots,
    recentEvents, gameOver, hpDamageEnabled,
    WLED_URL, wledSegsReady, wledSent, wledPending,
    emitted, observer, now, opsLeft, lastReq, response

stateVars == <<maxHp, bossHp, crystalCount, totalCrystalsReceived, slots,
               recentEvents, gameOver, hpDamageEnabled>>
wledVars == <<WLED_URL, wledSegsReady, wledSent, wledPending>>
vars == <<maxHp, bossHp, crystalCount, totalCrystalsReceived, slots,
          recentEvents, gameOver, hpDamageEnabled,
          WLED_URL, wledSegsReady, wledSent, wledPending,
          emitted, observer, now, opsLeft, lastReq, response>>

\* ------------------------------------------------------------- helpers
Max(a, b) == IF a >= b THEN a ELSE b
Min(a, b) == IF a <= b THEN a ELSE b

AllEmpty == [i \in 1..SLOT_COUNT |-> FALSE]

\* Boolean(s) on a JSON value, named by its literal.
ToBoolean(v) == v \notin {"false", "0", "null", "emptystr"}

\* slots.slice(0, SLOT_COUNT).map((s) => Boolean(s))
CoerceSlots(elems) ==
    [i \in 1..Min(Len(elems), SLOT_COUNT) |-> ToBoolean(elems[i])]

RECURSIVE CountFrom(_, _)
CountFrom(s, i) ==
    IF i > Len(s) THEN 0 ELSE (IF s[i] THEN 1 ELSE 0) + CountFrom(s, i + 1)

\* slots.filter(Boolean).length
CountFilled(s) == CountFrom(s, 1)

\* Number(v): [nan, tenths].  undefined and a non-numeric string give NaN,
\* null gives 0, a number is itself.
ToNumber(v) ==
    CASE v.kind = "undefined" -> [nan |-> TRUE, tenths |-> 0]
      [] v.kind = "string" -> [nan |-> TRUE, tenths |-> 0]
      [] v.kind = "null" -> [nan |-> FALSE, tenths |-> 0]
      [] OTHER -> [nan |-> FALSE, tenths |-> v.tenths]

\* Math.floor of a number held in tenths.
Floor(tenths) == tenths \div 10

\* Math.ceil of a number held in hundredths.
CeilHundredths(h) == -((-h) \div 100)

\* Fault injection for C9: shift() where the code has pop(), so that the
\* entry dropped at capacity is the newest instead of the oldest.
addEventShift(log, ev) ==
    LET l == <<ev>> \o log
    IN  IF Len(l) > MAX_RECENT_EVENTS THEN Tail(l) ELSE l

\* ------------------------------------------------------------ event log
addEvent(log, ev) ==
    LET l == <<ev>> \o log
    IN  IF Len(l) > MAX_RECENT_EVENTS THEN SubSeq(l, 1, Len(l) - 1) ELSE l

\* --------------------------------------------------------------- state
getState ==
    [bossHp |-> bossHp, crystalCount |-> crystalCount, gameOver |-> gameOver,
     hpDamageEnabled |-> hpDamageEnabled, maxHp |-> maxHp,
     recentEvents |-> recentEvents, slots |-> slots,
     totalCrystalsReceived |-> totalCrystalsReceived]

\* The snapshot of the state the handler is about to commit.
getStateNext ==
    [bossHp |-> bossHp', crystalCount |-> crystalCount', gameOver |-> gameOver',
     hpDamageEnabled |-> hpDamageEnabled', maxHp |-> maxHp',
     recentEvents |-> recentEvents', slots |-> slots',
     totalCrystalsReceived |-> totalCrystalsReceived']

\* Fault injection for C11: the broadcast taken before the handler's
\* writes, so that observers are sent the state the request found.
broadcastStale == emitted' = Append(emitted, getState)

\* io.emit('state', getState()) at the end of a handler.
broadcastState == emitted' = Append(emitted, getStateNext)

\* Math.max(0, state.maxHp - state.crystalCount * HP_PER_CRYSTAL)
HpFromCrystals(mx, count) == Max(0, mx - count * HP_PER_CRYSTAL)

\* ------------------------------------------------------------- lighting
\* Fault injection for C16: the request sent without looking at WLED_URL.
sendWLEDUnguarded(w, req) ==
    [pending |-> w.pending \cup {Len(w.sent) + 1},
     sent |-> Append(w.sent, req)]

\* Fault injection for C15: the request awaited inside the call, so that
\* the handler goes on only once the device has answered.
sendWLEDAwaited(w, req) ==
    IF WLED_URL = "" THEN w
    ELSE [pending |-> w.pending, sent |-> Append(w.sent, req)]

\* sendWLED(json, cb): one outbound request, recorded in wledSent and
\* outstanding until it completes; nothing when WLED_URL is empty.
sendWLED(w, req) ==
    IF WLED_URL = "" THEN w
    ELSE [pending |-> w.pending \cup {Len(w.sent) + 1},
          sent |-> Append(w.sent, req)]

\* The per-segment batch of updateWLEDFromSlots' callback.
SlotBatch(s) ==
    [kind |-> "batch",
     seg |-> [n \in 1..Min(Len(s), SLOT_COUNT) |->
                 IF s[n] THEN WLED_CANDLE_MULTI_FX ELSE 0],
     slots |-> s]

\* Fault injection for C20: an in-flight marker that makes an update which
\* arrives during the initialization return without queueing its batch.
updateWLEDSkipInFlight(w, s) ==
    IF WLED_URL = "" THEN w
    ELSE IF wledSegsReady THEN sendWLED(w, SlotBatch(s))
    ELSE IF \E j \in 1..Len(w.sent) : w.sent[j].kind \in {"step1", "step2"}
    THEN w
    ELSE sendWLED(w, [kind |-> "step1", slots |-> s])

\* Fault injection for C19: initWLEDSegments without its test of the
\* latch, so that every update starts with step 1.
updateWLEDAlwaysInit(w, s) ==
    IF WLED_URL = "" THEN w
    ELSE sendWLED(w, [kind |-> "step1", slots |-> s])

\* Fault injection for C18: both steps of the initialization sent at once,
\* step 2 not waiting for the completion of step 1.
updateWLEDBothSteps(w, s) ==
    IF WLED_URL = "" THEN w
    ELSE IF wledSegsReady THEN sendWLED(w, SlotBatch(s))
    ELSE sendWLED(sendWLED(w, [kind |-> "step1", slots |-> s]),
                  [kind |-> "step2", slots |-> s])

\* updateWLEDFromSlots(slots): initWLEDSegments runs the callback at once
\* when the segments are ready, and otherwise starts with step 1.
updateWLEDFromSlots(w, s) ==
    IF WLED_URL = "" THEN w
    ELSE IF wledSegsReady THEN sendWLED(w, SlotBatch(s))
    ELSE sendWLED(w, [kind |-> "step1", slots |-> s])

Wled == [pending |-> wledPending, sent |-> wledSent]

SetWled(w) ==
    /\ wledSent' = w.sent
    /\ wledPending' = w.pending
    /\ UNCHANGED <<WLED_URL, wledSegsReady>>

\* ----------------------------------------------------------------- Init
InitState ==
    /\ maxHp \in MaxHpChoices
    /\ bossHp = maxHp
    /\ crystalCount = 0
    /\ totalCrystalsReceived = 0
    /\ slots = AllEmpty
    /\ recentEvents = <<>>
    /\ gameOver = FALSE
    /\ hpDamageEnabled = TRUE
    /\ WLED_URL \in WledUrlChoices
    /\ wledSegsReady = FALSE
    /\ wledSent = <<>>
    /\ wledPending = {}
    /\ emitted = <<>>
    /\ observer = [at |-> 0, connected |-> FALSE, snap |-> <<>>]
    /\ now = 0
    /\ lastReq = [op |-> "none"]
    /\ response = [status |-> 0]

Init == InitState /\ opsLeft = MaxOps

\* A request arrives and passes validation: the handler reads Date.now(),
\* a logical clock that advances with every accepted request.  opsLeft is
\* the number of requests and callbacks the behaviour may still take, and
\* lastReq the one handled last.
Accept(op, body) ==
    /\ opsLeft > 0
    /\ opsLeft' = opsLeft - 1
    /\ now' = now + 1
    /\ lastReq' = [body |-> body, op |-> op]
    /\ UNCHANGED observer

\* Fault injection for C8: the rejected request logged and broadcast, as
\* the earlier variant of the file does for a report it ignores.
RejectLogged(op, body) ==
    /\ opsLeft > 0
    /\ opsLeft' = opsLeft - 1
    /\ lastReq' = [body |-> body, op |-> op]
    /\ response' = [ok |-> FALSE, status |-> 400]
    /\ recentEvents' = addEvent(recentEvents,
           [ignored |-> TRUE, ts |-> now, type |-> op])
    /\ emitted' = Append(emitted, [getState EXCEPT !.recentEvents = recentEvents'])
    /\ UNCHANGED <<maxHp, bossHp, crystalCount, totalCrystalsReceived, slots,
                   gameOver, hpDamageEnabled, wledVars, observer, now>>

\* res.status(400).json(...): nothing but the response.
Reject(op, body) ==
    /\ opsLeft > 0
    /\ opsLeft' = opsLeft - 1
    /\ lastReq' = [body |-> body, op |-> op]
    /\ response' = [ok |-> FALSE, status |-> 400]
    /\ UNCHANGED <<stateVars, wledVars, emitted, observer, now>>

\* Fault injection for C6: the loop without its removal branch (inserts
\* only, as the per-crystal events of the earlier variant).
RECURSIVE DiffLoopInsertsOnly(_, _, _, _, _)
DiffLoopInsertsOnly(i, reported, prevSlots, ts, acc) ==
    IF i >= SLOT_COUNT THEN acc
    ELSE IF reported[i + 1] /\ ~prevSlots[i + 1]
         THEN DiffLoopInsertsOnly(i + 1, reported, prevSlots, ts,
                  [inserts |-> acc.inserts + 1,
                   log |-> <<[damage |-> HP_PER_CRYSTAL, slot |-> i,
                              ts |-> ts, type |-> "crystal_insert"]>>
                           \o acc.log])
    ELSE DiffLoopInsertsOnly(i + 1, reported, prevSlots, ts, acc)

\* ------------------------------------------------------- POST /event
\* The loop of lines 304-311 from index i (0-based) on: the log and the
\* number of inserts after it.
RECURSIVE DiffLoop(_, _, _, _, _)
DiffLoop(i, reported, prevSlots, ts, acc) ==
    IF i >= SLOT_COUNT THEN acc
    ELSE IF reported[i + 1] /\ ~prevSlots[i + 1]
         THEN DiffLoop(i + 1, reported, prevSlots, ts,
                  [inserts |-> acc.inserts + 1,
                   log |-> addEvent(acc.log,
                              [damage |-> HP_PER_CRYSTAL, slot |-> i,
                               ts |-> ts, type |-> "crystal_insert"])])
    ELSE IF ~reported[i + 1] /\ prevSlots[i + 1]
         THEN DiffLoop(i + 1, reported, prevSlots, ts,
                  [inserts |-> acc.inserts,
                   log |-> addEvent(acc.log,
                              [slot |-> i, ts |-> ts,
                               type |-> "crystal_remove"])])
    ELSE DiffLoop(i + 1, reported, prevSlots, ts, acc)

\* Whether the report passes the checks of lines 293-299.
EventValid(body) ==
    /\ body.type = "crystal"
    /\ body.slots.isArray
    /\ Len(body.slots.elems) = SLOT_COUNT

\* Fault injection for C2: the damage of the occupied slots taken from the
\* current HP, as per-crystal events would, instead of from maxHp.
EventHpFromCurrent(count) ==
    IF hpDamageEnabled THEN Max(0, bossHp - count * HP_PER_CRYSTAL) ELSE bossHp

\* Fault injection for C10: the damage gate ignored by the slot report.
EventHpUngated(count) == HpFromCrystals(maxHp, count)

\* bossHp after a report: recomputed only while damage is enabled.
EventHp(count) ==
    IF hpDamageEnabled THEN HpFromCrystals(maxHp, count) ELSE bossHp

\* Fault injection for C13: gameOver latched once true, as the game-over
\* branch of the earlier variant of the file treats it.
EventGameOverLatched(hp) ==
    gameOver \/ (IF hpDamageEnabled THEN hp <= 0 ELSE gameOver)

EventGameOver(hp) == IF hpDamageEnabled THEN hp <= 0 ELSE gameOver

\* Fault injection for C7: the reported vector never stored.
NewSlotsKept(reported) == slots

\* state.slots = slots
NewSlots(reported) == reported

\* Fault injection for C5: = where the code has +=.
TotalAssigned(total, inserts) == inserts

\* state.totalCrystalsReceived += inserts
TotalAfterReport(total, inserts) == total + inserts

PostEvent(body) ==
    IF ~EventValid(body) THEN Reject("event", body)
    ELSE /\ Accept("event", body)
         /\ LET reported == CoerceSlots(body.slots.elems)
                d == DiffLoop(0, reported, slots, now',
                              [inserts |-> 0, log |-> recentEvents])
                count == CountFilled(reported)
                hp == EventHp(count)
            IN  /\ recentEvents' = d.log
                /\ slots' = NewSlots(reported)
                /\ crystalCount' = count
                /\ bossHp' = hp
                /\ gameOver' = EventGameOver(hp)
                /\ totalCrystalsReceived' =
                       TotalAfterReport(totalCrystalsReceived, d.inserts)
                /\ UNCHANGED <<maxHp, hpDamageEnabled>>
                /\ SetWled(updateWLEDFromSlots(Wled, slots'))
                /\ broadcastState
                /\ response' = [bossHp |-> hp, gameOver |-> gameOver', ok |-> TRUE,
                                slots |-> slots', status |-> 200]

\* Fault injection for C1: the clamp to maxHp left out.
ClampHpUnbounded(mx, tenths) == Floor(tenths)

\* ---------------------------------------------------- POST /admin/hp
\* Math.min(state.maxHp, Math.floor(hp))
ClampHp(mx, tenths) == Min(mx, Floor(tenths))

HpValid(n) == ~n.nan /\ ~(n.tenths < 0)

AdminHp(v) ==
    LET hp == ToNumber(v)
    IN  IF ~HpValid(hp) THEN Reject("admin_hp", v)
        ELSE LET newHp == ClampHp(maxHp, hp.tenths)
             IN     /\ Accept("admin_hp", v)
                    /\ bossHp' = newHp
                    /\ gameOver' = (newHp <= 0)
                    /\ recentEvents' = addEvent(recentEvents,
                           [hp |-> newHp, ts |-> now', type |-> "admin_hp"])
                    /\ UNCHANGED <<maxHp, crystalCount, totalCrystalsReceived,
                                   slots, hpDamageEnabled, wledVars>>
                    /\ broadcastState
                    /\ response' = [bossHp |-> newHp, ok |-> TRUE,
                                    status |-> 200]

\* --------------------------------------------- POST /admin/hp/reduce
\* Fault injection for C14: the damage rounded down.
ReduceDamageFloor(mx) == (mx * 5) \div 100

\* Math.ceil(state.maxHp * 0.05)
ReduceDamage(mx) == CeilHundredths(mx * 5)

AdminHpReduce ==
    /\ Accept("admin_hp_reduce", [kind |-> "undefined"])
    /\ LET damage == ReduceDamage(maxHp)
           newHp == Max(0, bossHp - damage)
       IN  /\ bossHp' = newHp
           /\ gameOver' = (newHp <= 0)
           /\ recentEvents' = addEvent(recentEvents,
                  [damage |-> damage, hp |-> newHp,
                   ts |-> now', type |-> "admin_hp_reduce"])
           /\ UNCHANGED <<maxHp, crystalCount, totalCrystalsReceived, slots,
                          hpDamageEnabled, wledVars>>
           /\ broadcastState
           /\ response' = [bossHp |-> newHp, damage |-> damage, ok |-> TRUE,
                           status |-> 200]

\* --------------------------------------------- POST /admin/hp-damage
\* typeof enabled === 'boolean'
IsBoolean(v) == v.kind = "boolean"

AdminHpDamage(v) ==
    IF ~IsBoolean(v) THEN Reject("admin_hp_damage", v)
    ELSE    LET enabled == v.value
                newHp == IF enabled THEN HpFromCrystals(maxHp, crystalCount)
                         ELSE bossHp
            IN  /\ Accept("admin_hp_damage", v)
                /\ hpDamageEnabled' = enabled
                /\ bossHp' = newHp
                /\ gameOver' = (IF enabled THEN newHp <= 0 ELSE gameOver)
                /\ recentEvents' = addEvent(recentEvents,
                       [enabled |-> enabled, ts |-> now',
                        type |-> "admin_hp_damage"])
                /\ UNCHANGED <<maxHp, crystalCount, totalCrystalsReceived,
                               slots, wledVars>>
                /\ broadcastState
                /\ response' = [hpDamageEnabled |-> enabled, ok |-> TRUE,
                                status |-> 200]

\* Fault injection for C3: the log not cleared before the record is added.
ResetLogKept(ts) == addEvent(recentEvents, [ts |-> ts, type |-> "admin_reset"])

\* ------------------------------------------------- POST /admin/reset
\* The event log reset leaves: cleared, then the admin_reset record.
ResetLog(ts) == addEvent(<<>>, [ts |-> ts, type |-> "admin_reset"])

\* The damage gate after reset: the handler does not assign it.
ResetHpDamageEnabled == hpDamageEnabled

\* totalCrystalsReceived after reset.
ResetTotal == 0

AdminReset ==
    /\ Accept("admin_reset", [kind |-> "undefined"])
    /\ bossHp' = maxHp
    /\ crystalCount' = 0
    /\ totalCrystalsReceived' = ResetTotal
    /\ slots' = AllEmpty
    /\ gameOver' = FALSE
    /\ recentEvents' = ResetLog(now')
    /\ hpDamageEnabled' = ResetHpDamageEnabled
    /\ UNCHANGED maxHp
    /\ SetWled(updateWLEDFromSlots(Wled, AllEmpty))
    /\ broadcastState
    /\ response' = [ok |-> TRUE, state |-> getStateNext, status |-> 200]

\* -------------------------------------------------- POST /admin/wled
AdminWled ==
    /\ Accept("admin_wled", [kind |-> "object"])
    /\ SetWled(sendWLED(Wled, [kind |-> "override", slots |-> <<>>]))
    /\ UNCHANGED <<stateVars, emitted>>
    /\ response' = [ok |-> TRUE, status |-> 200]

\* ------------------------------------------- lighting request completes
\* The response callback or the error handler of request id runs (a
\* timeout destroys the request, which raises the error): the callback
\* passed to sendWLED, if any, is called.  The callback of step 1 sends
\* step 2, the callback of step 2 sets the latch and sends the batch for
\* the slots its update captured; a batch and a manual override have none.
WledCallback(id) ==
    /\ id \in wledPending
    /\ lastReq' = [body |-> [id |-> id, kind |-> "callback"],
                   op |-> "wled_callback"]
    /\ LET req == wledSent[id]
           w == [pending |-> wledPending \ {id}, sent |-> wledSent]
       IN  CASE req.kind = "step1" ->
                  /\ wledSegsReady' = wledSegsReady
                  /\ LET n == sendWLED(w, [kind |-> "step2",
                                           slots |-> req.slots])
                     IN  wledSent' = n.sent /\ wledPending' = n.pending
             [] req.kind = "step2" ->
                  /\ wledSegsReady' = TRUE
                  /\ LET n == sendWLED(w, SlotBatch(req.slots))
                     IN  wledSent' = n.sent /\ wledPending' = n.pending
             [] OTHER ->
                  /\ wledSegsReady' = wledSegsReady
                  /\ wledSent' = w.sent /\ wledPending' = w.pending
    /\ UNCHANGED <<stateVars, WLED_URL, emitted, observer, now, response>>

\* The callback as one more piece of work of the event loop, counted in
\* opsLeft like a request.
WledComplete(id) ==
    /\ opsLeft > 0
    /\ opsLeft' = opsLeft - 1
    /\ WledCallback(id)

\* ------------------------------------------------ io.on('connection')
\* socket.emit('state', getState()): the socket that connects is sent the
\* current state once; from then on it is sent every io.emit, so that what
\* it has received is snap followed by the broadcasts after position at.
\* Fault injection for C12: the connecting socket is sent the snapshot of
\* the broadcast before the last one.
ConnectSnapshotStale ==
    IF Len(emitted) >= 2 THEN emitted[Len(emitted) - 1] ELSE getState

ConnectSnapshot == getState

Connect ==
    /\ opsLeft > 0
    /\ opsLeft' = opsLeft - 1
    /\ ~observer.connected
    /\ observer' = [at |-> Len(emitted), connected |-> TRUE,
                    snap |-> ConnectSnapshot]
    /\ lastReq' = [body |-> [kind |-> "socket"], op |-> "connect"]
    /\ UNCHANGED <<stateVars, wledVars, emitted, now, response>>

\* --------------------------------------------------------------- inputs
JsonTrue7 == [i \in 1..SLOT_COUNT |-> "true"]
JsonFalse7 == [i \in 1..SLOT_COUNT |-> "false"]
\* Entries that are not booleans: 1, 0, "x", null, true, false, "".
JsonMixed7 == <<"1", "0", "str", "null", "true", "false", "emptystr">>
JsonSome7 == <<"true", "true", "false", "false", "true", "false", "false">>

Arr(elems) == [elems |-> elems, isArray |-> TRUE]

EventBodies ==
    {[slots |-> Arr(e), type |-> "crystal"] :
        e \in {JsonTrue7, JsonFalse7, JsonMixed7, JsonSome7}}
    \cup {[slots |-> Arr(JsonTrue7), type |-> "other"],
          [slots |-> [elems |-> <<>>, isArray |-> FALSE], type |-> "crystal"],
          [slots |-> Arr(SubSeq(JsonTrue7, 1, 5)), type |-> "crystal"]}

Num(tenths) == [kind |-> "number", tenths |-> tenths]

HpInputs ==
    {[kind |-> "undefined"], [kind |-> "string"], [kind |-> "null"],
     Num(-10), Num(355), Num(2500)}

EnabledInputs ==
    {[kind |-> "boolean", value |-> TRUE], [kind |-> "boolean", value |-> FALSE],
     [kind |-> "string"], [kind |-> "undefined"]}

\* ----------------------------------------------------------------- Next
\* The request handlers and the callbacks of the lighting requests.
Next ==
    \/ \E body \in EventBodies : PostEvent(body)
    \/ \E v \in HpInputs : AdminHp(v)
    \/ AdminHpReduce
    \/ \E v \in EnabledInputs : AdminHpDamage(v)
    \/ AdminReset
    \/ AdminWled
    \/ \E id \in wledPending : WledComplete(id)
    \/ Connect

Spec == Init /\ [][Next]_vars

\* Two slot reports from the initial state, over every vector of seven
\* booleans.
BoolVectors == [1..SLOT_COUNT -> {"true", "false"}]

InitPairs == InitState /\ opsLeft = 2

NextPairs ==
    \E e \in BoolVectors : PostEvent([slots |-> Arr(e), type |-> "crystal"])

SpecPairs == InitPairs /\ [][NextPairs]_vars

\* The lighting adapter with WLED_URL set: slot reports, resets and manual
\* overrides, MaxLightReqs of them, and the callbacks of the lighting
\* requests, every one of which eventually runs (the device answers, the
\* connection fails, or the 5 second timeout destroys the request).
LightBodies ==
    {[slots |-> Arr(e), type |-> "crystal"] : e \in {JsonTrue7, JsonSome7}}

WledDrain(id) == WledCallback(id) /\ UNCHANGED opsLeft

InitLight == InitState /\ WLED_URL # "" /\ opsLeft = MaxLightReqs

NextLight ==
    \/ \E body \in LightBodies : PostEvent(body)
    \/ AdminReset
    \/ AdminWled
    \/ \E id \in wledPending : WledDrain(id)

SpecLight ==
    /\ InitLight
    /\ [][NextLight]_vars
    /\ WF_vars(\E id \in wledPending : WledDrain(id))

\* ======================================================================
\* Properties
\* ======================================================================
\* The step just taken is an accepted request of kind op.
Accepted(op) == lastReq.op = op /\ response.status = 200
\* This step is the handling of an accepted request of kind op.
AcceptedStep(op) == now' = now + 1 /\ lastReq'.op = op
\* This step is the handling of a request that is rejected.
RejectedStep ==
    /\ opsLeft' = opsLeft - 1
    /\ lastReq'.op \notin {"wled_callback", "connect"}
    /\ response'.status = 400
\* The snapshot broadcast by the accepted request before the last one.
PrevEmit == emitted[Len(emitted) - 1]

\* C1: after any sequence of accepted or rejected operations,
\* 0 <= bossHp <= maxHp, and gameOver is true exactly when bossHp = 0.
C1_HpRange ==
    /\ 0 <= bossHp
    /\ bossHp <= maxHp
    /\ gameOver <=> (bossHp = 0)

\* C1 witness: seven crystals have exhausted the boss (maxHp 50), and a
\* rejected request has followed.
C1_Witness ==
    /\ gameOver /\ bossHp = 0 /\ crystalCount = SLOT_COUNT
    /\ response.status = 400

\* C2 as stated: whenever damage is enabled, bossHp is
\* max(0, maxHp - crystalCount * HP_PER_CRYSTAL), after admin set-HP and
\* reduce-HP too.
C2_Original ==
    hpDamageEnabled => bossHp = Max(0, maxHp - crystalCount * HP_PER_CRYSTAL)

\* C2 amended: in the state committed by an accepted slot report, damage
\* toggle or reset, if damage is enabled then bossHp is
\* max(0, maxHp - crystalCount * HP_PER_CRYSTAL); steps that do not write
\* bossHp (rejected requests, the lighting override, lighting callbacks)
\* preserve the equality.
C2_HpFromOccupancy ==
    [][/\ (AcceptedStep("event") \/ AcceptedStep("admin_hp_damage")
             \/ AcceptedStep("admin_reset")) /\ hpDamageEnabled'
          => bossHp' = Max(0, maxHp' - crystalCount' * HP_PER_CRYSTAL)
       /\ ~(AcceptedStep("admin_hp") \/ AcceptedStep("admin_hp_reduce"))
             /\ C2_Original
          => C2_Original']_vars

\* C2 witness: a slot report has put bossHp back on the occupancy formula
\* after an admin set-HP had moved it away.
C2_Witness ==
    /\ Accepted("event") /\ hpDamageEnabled /\ crystalCount > 0
    /\ bossHp = maxHp - crystalCount * HP_PER_CRYSTAL
    /\ Len(emitted) >= 2
    /\ PrevEmit.recentEvents # <<>>
    /\ PrevEmit.recentEvents[1].type = "admin_hp"
    /\ PrevEmit.bossHp # PrevEmit.maxHp - PrevEmit.crystalCount * HP_PER_CRYSTAL

\* C3 as stated: reset leaves bossHp = maxHp, every slot false,
\* totalCrystalsReceived = 0, gameOver false and recentEvents empty.
C3_Original ==
    Accepted("admin_reset") =>
        /\ bossHp = maxHp
        /\ \A i \in 1..SLOT_COUNT : ~slots[i]
        /\ totalCrystalsReceived = 0
        /\ ~gameOver
        /\ Len(recentEvents) = 0

\* C3 amended: reset leaves bossHp = maxHp, every slot false, crystalCount
\* and totalCrystalsReceived 0, gameOver false, and recentEvents holding
\* exactly one record, the admin_reset record of this reset; that state is
\* the snapshot it broadcasts.
C3_ResetState ==
    Accepted("admin_reset") =>
        /\ bossHp = maxHp
        /\ Len(slots) = SLOT_COUNT
        /\ \A i \in 1..SLOT_COUNT : ~slots[i]
        /\ crystalCount = 0
        /\ totalCrystalsReceived = 0
        /\ ~gameOver
        /\ recentEvents = <<[ts |-> now, type |-> "admin_reset"]>>
        /\ emitted[Len(emitted)] = getState

\* C3 witness: a reset taken when the game was over, with slots filled and
\* several records in the log.
C3_Witness ==
    /\ Accepted("admin_reset")
    /\ Len(emitted) >= 2
    /\ PrevEmit.gameOver
    /\ PrevEmit.crystalCount > 0
    /\ PrevEmit.totalCrystalsReceived > 0
    /\ Len(PrevEmit.recentEvents) > 1

\* C4: reset restores the initial configuration; in particular
\* hpDamageEnabled is true after reset even if it had been disabled.
C4_Original == Accepted("admin_reset") => hpDamageEnabled

\* C5 as stated: totalCrystalsReceived never decreases in any step, reset
\* included.
C5_Original == [][totalCrystalsReceived' >= totalCrystalsReceived]_vars

\* C5 amended: totalCrystalsReceived never decreases in a step other than
\* reset; reset sets it to 0.
C5_TotalMonotone ==
    [][IF AcceptedStep("admin_reset") THEN totalCrystalsReceived' = 0
       ELSE totalCrystalsReceived' >= totalCrystalsReceived]_vars

\* C5 witness: crystals were removed and inserted again, so the counter
\* exceeds the number of slots, and a request other than reset has followed.
C5_Witness ==
    /\ totalCrystalsReceived > SLOT_COUNT
    /\ crystalCount < totalCrystalsReceived
    /\ lastReq.op = "event"

\* A reported array of JSON booleans as a vector of booleans.
AsBools(elems) == [i \in 1..SLOT_COUNT |-> elems[i] = "true"]
\* The vector reported by the request before this step (all false before
\* the first report of SpecPairs).
PrevVector ==
    IF lastReq.op = "event" THEN AsBools(lastReq.body.slots.elems)
    ELSE [i \in 1..SLOT_COUNT |-> FALSE]
\* Indices (0-based) that go from false to true, and from true to false.
Inserted(S1, S2) == {i \in 0..SLOT_COUNT - 1 : ~S1[i + 1] /\ S2[i + 1]}
Removed(S1, S2) == {i \in 0..SLOT_COUNT - 1 : S1[i + 1] /\ ~S2[i + 1]}

\* C6: reporting S1 then S2 from the initial state gives
\* crystalCount = popcount(S2); the second report appends exactly one event
\* per index where S1 and S2 differ, crystal_insert for false->true and
\* crystal_remove for true->false, in ascending index order (so the highest
\* index is at the front of the most-recent-first log), and
\* totalCrystalsReceived grows by the number of inserts.  The same is
\* checked of the first report against the all-false initial vector.
C6_PairDiff ==
    [][AcceptedStep("event") =>
        LET S1 == PrevVector
            S2 == AsBools(lastReq'.body.slots.elems)
            ins == Inserted(S1, S2)
            rem == Removed(S1, S2)
            k == Cardinality(ins \cup rem)
        IN  /\ slots' = S2
            /\ crystalCount' = Cardinality({i \in 1..SLOT_COUNT : S2[i]})
            /\ totalCrystalsReceived' = totalCrystalsReceived + Cardinality(ins)
            /\ Len(recentEvents') = Len(recentEvents) + k
            /\ \A j \in 1..Len(recentEvents) : recentEvents'[k + j] = recentEvents[j]
            /\ \A j \in 1..k :
                  LET e == recentEvents'[j]
                  IN  /\ e.slot \in ins \cup rem
                      /\ e.slot \in ins =>
                            e = [damage |-> HP_PER_CRYSTAL, slot |-> e.slot,
                                 ts |-> now', type |-> "crystal_insert"]
                      /\ e.slot \in rem =>
                            e = [slot |-> e.slot, ts |-> now',
                                 type |-> "crystal_remove"]
            /\ \A j1, j2 \in 1..k :
                  j1 < j2 => recentEvents'[j1].slot > recentEvents'[j2].slot
      ]_vars

\* C6 witness: the second report has appended both inserts and removals
\* on top of the events of the first.
C6_Witness ==
    /\ now = 2 /\ opsLeft = 0
    /\ \E j \in 1..Len(recentEvents) :
          recentEvents[j].ts = 2 /\ recentEvents[j].type = "crystal_insert"
    /\ \E j \in 1..Len(recentEvents) :
          recentEvents[j].ts = 2 /\ recentEvents[j].type = "crystal_remove"
    /\ \E j \in 1..Len(recentEvents) : recentEvents[j].ts = 1
    /\ crystalCount \in 1..SLOT_COUNT - 1

\* C7: when the same valid slot vector is reported twice in a row, the
\* second report is accepted, appends no event, and leaves slots,
\* crystalCount, totalCrystalsReceived, bossHp and gameOver as the first
\* report left them.
C7_Idempotent ==
    [][(/\ Accepted("event")
        /\ lastReq'.op = "event"
        /\ lastReq'.body = lastReq.body
        /\ now' = now + 1) =>
        /\ response'.status = 200
        /\ recentEvents' = recentEvents
        /\ slots' = slots
        /\ crystalCount' = crystalCount
        /\ totalCrystalsReceived' = totalCrystalsReceived
        /\ bossHp' = bossHp
        /\ gameOver' = gameOver
      ]_vars

\* C7 witness: an accepted report that appended nothing, right after the
\* accepted report that filled the slots (its events, one clock tick old,
\* are still at the front of the log).
C7_Witness ==
    /\ Accepted("event")
    /\ now >= 2
    /\ crystalCount > 0
    /\ recentEvents # <<>>
    /\ recentEvents[1].ts = now - 1
    /\ recentEvents[1].type = "crystal_insert"
    /\ Len(emitted) >= 2
    /\ PrevEmit.slots = slots
    /\ PrevEmit.recentEvents = recentEvents

\* C8: a request rejected with a validation error leaves GameState and the
\* event log unchanged, broadcasts nothing and sends nothing to the
\* lighting device; and a slot report with a wrong type tag, a non-array
\* or an array of length other than 7, a set-HP with hp missing, negative
\* or a non-numeric string, and a damage toggle with a non-boolean, are
\* rejected.
C8_RejectedUnchanged ==
    [][/\ RejectedStep =>
             UNCHANGED <<stateVars, emitted, wledVars, now>>
       /\ (lastReq'.op = "event"
             /\ (\/ lastReq'.body.type # "crystal"
                 \/ ~lastReq'.body.slots.isArray
                 \/ Len(lastReq'.body.slots.elems) # SLOT_COUNT))
             => response'.status = 400
       /\ (lastReq'.op = "admin_hp"
             /\ (\/ lastReq'.body.kind \in {"undefined", "string"}
                 \/ (lastReq'.body.kind = "number" /\ lastReq'.body.tenths < 0)))
             => response'.status = 400
       /\ (lastReq'.op = "admin_hp_damage" /\ lastReq'.body.kind # "boolean")
             => response'.status = 400
      ]_vars

\* C8 witness: a report with five slots rejected in a state with crystals
\* in place, records in the log and lighting requests sent.
C8_Witness ==
    /\ response.status = 400
    /\ lastReq.op = "event"
    /\ lastReq.body.type = "crystal"
    /\ lastReq.body.slots.isArray
    /\ Len(lastReq.body.slots.elems) = 5
    /\ crystalCount > 0
    /\ Len(recentEvents) > 1
    /\ WLED_URL # ""
    /\ wledSent # <<>>

\* Most-recent-first: of two neighbours the later timestamp comes first;
\* the events of one report share a timestamp and are appended in ascending
\* slot order.  (The order is lexicographic on timestamp and slot, so
\* neighbours in order put every pair in order.)
MostRecentFirst(log) ==
    \A i \in 1..Len(log) - 1 :
        \/ log[i].ts > log[i + 1].ts
        \/ /\ log[i].ts = log[i + 1].ts
           /\ log[i].type \in {"crystal_insert", "crystal_remove"}
           /\ log[i + 1].type \in {"crystal_insert", "crystal_remove"}
           /\ log[i].slot > log[i + 1].slot

\* The number of records the request handled in this step appends.
AppendedByStep ==
    IF AcceptedStep("event")
    THEN Cardinality(Inserted(slots, slots') \cup Removed(slots, slots'))
    ELSE IF \/ AcceptedStep("admin_hp") \/ AcceptedStep("admin_hp_reduce")
            \/ AcceptedStep("admin_hp_damage")
    THEN 1
    ELSE 0

\* C9: recentEvents never holds more than 20 entries and is ordered
\* most-recent-first; a request that appends k records puts them at the
\* front and keeps the Min(old length, 20 - k) most recent of the old
\* entries, so what is dropped is the oldest (the end of the sequence),
\* also when one slot report appends several events.
C9_BoundedLog ==
    [][/\ Len(recentEvents') <= MAX_RECENT_EVENTS
       /\ MostRecentFirst(recentEvents')
       /\ ~AcceptedStep("admin_reset") =>
             LET k == AppendedByStep
                 kept == Min(Len(recentEvents), MAX_RECENT_EVENTS - k)
             IN  /\ Len(recentEvents') = k + kept
                 /\ \A j \in 1..k : recentEvents'[j].ts = now'
                 /\ \A j \in 1..kept : recentEvents'[k + j] = recentEvents[j]
      ]_vars

\* C9 witness: the third of three reports (all seven in, out, in again)
\* appended seven events to a log of fourteen: the log is full and the
\* oldest record, the insert of slot 0 of the first report, is gone.
C9_Witness ==
    /\ now = 3
    /\ Len(recentEvents) = MAX_RECENT_EVENTS
    /\ recentEvents[1] = [damage |-> HP_PER_CRYSTAL, slot |-> 6,
                          ts |-> 3, type |-> "crystal_insert"]
    /\ recentEvents[MAX_RECENT_EVENTS] =
          [damage |-> HP_PER_CRYSTAL, slot |-> 1,
           ts |-> 1, type |-> "crystal_insert"]

\* C10: while damage is disabled a slot report changes neither bossHp nor
\* gameOver, and still replaces slots and updates crystalCount and
\* totalCrystalsReceived; the request that enables damage sets bossHp to
\* max(0, maxHp - crystalCount * HP_PER_CRYSTAL) for the current occupancy
\* and gameOver to bossHp = 0, and the one that disables it leaves both.
C10_DamageToggle ==
    [][/\ (AcceptedStep("event") /\ ~hpDamageEnabled) =>
             /\ bossHp' = bossHp
             /\ gameOver' = gameOver
             /\ ~hpDamageEnabled'
             /\ \A i \in 1..SLOT_COUNT :
                   slots'[i] = ToBoolean(lastReq'.body.slots.elems[i])
             /\ crystalCount' = Cardinality({i \in 1..SLOT_COUNT : slots'[i]})
             /\ totalCrystalsReceived' =
                   totalCrystalsReceived + Cardinality(Inserted(slots, slots'))
       /\ (AcceptedStep("admin_hp_damage") /\ lastReq'.body.value) =>
             /\ hpDamageEnabled'
             /\ crystalCount' = crystalCount
             /\ bossHp' = Max(0, maxHp - crystalCount * HP_PER_CRYSTAL)
             /\ gameOver' = (bossHp' = 0)
       /\ (AcceptedStep("admin_hp_damage") /\ ~lastReq'.body.value) =>
             /\ ~hpDamageEnabled'
             /\ bossHp' = bossHp
             /\ gameOver' = gameOver
      ]_vars

\* C10 witness: damage was enabled again after a slot report taken while
\* it was disabled, and bossHp moved to the value of the occupancy.
C10_Witness ==
    /\ Accepted("admin_hp_damage")
    /\ hpDamageEnabled
    /\ crystalCount > 0
    /\ Len(emitted) >= 2
    /\ ~PrevEmit.hpDamageEnabled
    /\ PrevEmit.crystalCount = crystalCount
    /\ PrevEmit.recentEvents[1].type = "crystal_insert"
    /\ PrevEmit.bossHp = maxHp
    /\ bossHp < maxHp

\* The operations that write GameState.
MutatingOps ==
    {"event", "admin_hp", "admin_hp_reduce", "admin_hp_damage", "admin_reset"}

\* C11: every accepted slot report, set-HP, reduce-HP, damage toggle and
\* reset emits exactly one broadcast, and its snapshot is the full
\* GameState the operation committed, the records it appended to the log
\* included; the response is the success response of that operation.
C11_OneBroadcast ==
    [][\A op \in MutatingOps :
          AcceptedStep(op) =>
             /\ emitted' = Append(emitted, getState')
             /\ response'.status = 200
      ]_vars

\* C11 witness: a slot report was accepted, its insert events are at the
\* front of the log, and the last broadcast carries that log and the new
\* HP.
C11_Witness ==
    /\ Accepted("event")
    /\ emitted # <<>>
    /\ recentEvents # <<>>
    /\ recentEvents[1].ts = now
    /\ recentEvents[1].type = "crystal_insert"
    /\ bossHp < maxHp
    /\ emitted[Len(emitted)] = getState

IsPrefix(a, b) == Len(a) <= Len(b) /\ SubSeq(b, 1, Len(a)) = a

\* What the observer has been sent: its initial snapshot, then every
\* broadcast emitted since it connected, in the order of emission.
Received ==
    IF observer.connected
    THEN <<observer.snap>> \o SubSeq(emitted, observer.at + 1, Len(emitted))
    ELSE <<>>

\* C12: snapshots are pushed in the order the mutations are committed
\* (what was emitted is never reordered, and a step that changes
\* GameState pushes the state it commits to the end of what a connected
\* observer has received); an observer that connects, at any point
\* between mutations and lighting callbacks, receives exactly one initial
\* snapshot, equal to the current state, which is the state of the last
\* broadcast when there was one.
C12_SnapshotOrder ==
    [][/\ IsPrefix(emitted, emitted')
       /\ emitted' # emitted => emitted' = Append(emitted, getState')
       /\ observer.connected =>
             /\ observer'.connected
             /\ IsPrefix(Received, Received')
             /\ (getState' # getState) => Received' = Append(Received, getState')
             /\ (getState' = getState) =>
                   Received' \in {Received, Append(Received, getState)}
       /\ (~observer.connected /\ observer'.connected) =>
             /\ Received' = <<getState>>
             /\ getState' = getState
             /\ emitted' = emitted
             /\ emitted # <<>> => observer'.snap = emitted[Len(emitted)]
      ]_vars

\* C12 witness: the observer connected after a slot report whose lighting
\* request was still outstanding, received that state, and then the
\* snapshot of the next mutation.
C12_Witness ==
    /\ observer.connected
    /\ observer.at >= 1
    /\ observer.snap = emitted[observer.at]
    /\ observer.snap.crystalCount > 0
    /\ Len(Received) = 2
    /\ Received[2] = getState
    /\ Received[2] # Received[1]
    /\ wledPending # {}

\* C13: a valid slot report that arrives while gameOver is true is
\* accepted and reconciled like any other (slots replaced, crystalCount
\* and totalCrystalsReceived updated, one insert or remove event per
\* changed slot at the front of the log, one broadcast), and every
\* step leaves gameOver true exactly when bossHp is 0, so a mutation
\* that leaves bossHp above 0 clears it.
C13_GameOverNotFrozen ==
    [][/\ (/\ gameOver
           /\ lastReq'.op = "event"
           /\ lastReq'.body.type = "crystal"
           /\ lastReq'.body.slots.isArray
           /\ Len(lastReq'.body.slots.elems) = SLOT_COUNT) =>
             /\ response'.status = 200
             /\ now' = now + 1
             /\ \A i \in 1..SLOT_COUNT :
                   slots'[i] = ToBoolean(lastReq'.body.slots.elems[i])
             /\ crystalCount' = Cardinality({i \in 1..SLOT_COUNT : slots'[i]})
             /\ totalCrystalsReceived' =
                   totalCrystalsReceived + Cardinality(Inserted(slots, slots'))
             /\ LET ins == Inserted(slots, slots')
                    rem == Removed(slots, slots')
                    k == Cardinality(ins \cup rem)
                IN  /\ Len(recentEvents') =
                          Min(MAX_RECENT_EVENTS, Len(recentEvents) + k)
                    /\ \A j \in 1..k :
                          /\ recentEvents'[j].ts = now'
                          /\ \/ /\ recentEvents'[j].type = "crystal_insert"
                                /\ recentEvents'[j].slot \in ins
                             \/ /\ recentEvents'[j].type = "crystal_remove"
                                /\ recentEvents'[j].slot \in rem
             /\ Len(emitted') = Len(emitted) + 1
             /\ hpDamageEnabled => bossHp' = Max(0, maxHp - crystalCount' * HP_PER_CRYSTAL)
       /\ gameOver' = (bossHp' = 0)
      ]_vars

\* C13 witness: the game was over (the previous broadcast says so), and
\* the accepted report that removed crystals brought bossHp above 0 and
\* cleared gameOver.
C13_Witness ==
    /\ Accepted("event")
    /\ Len(emitted) >= 2
    /\ PrevEmit.gameOver
    /\ PrevEmit.bossHp = 0
    /\ ~gameOver
    /\ bossHp > 0
    /\ crystalCount > 0
    /\ crystalCount < PrevEmit.crystalCount
    /\ recentEvents[1].type = "crystal_remove"
    /\ recentEvents[1].ts = now

\* ceil(mx * 5%): the least integer d with 100 * d >= 5 * mx.
CeilFivePercent(mx) ==
    CHOOSE d \in 0..mx : 100 * d >= 5 * mx /\ 100 * (d - 1) < 5 * mx

\* C14: admin reduce-HP is always accepted and subtracts ceil(maxHp * 5%)
\* from the current bossHp, floored at 0, and sets gameOver to bossHp = 0,
\* whatever the current HP and the damage-enabled flag, leaving occupancy
\* and the flag alone; with maxHp = 100 the damage is 5.
C14_ReduceFixedDamage ==
    [][lastReq'.op = "admin_hp_reduce" =>
          /\ response'.status = 200
          /\ response'.damage = CeilFivePercent(maxHp)
          /\ maxHp = 100 => response'.damage = 5
          /\ bossHp' = Max(0, bossHp - CeilFivePercent(maxHp))
          /\ response'.bossHp = bossHp'
          /\ gameOver' = (bossHp' = 0)
          /\ UNCHANGED <<maxHp, slots, crystalCount, totalCrystalsReceived,
                         hpDamageEnabled>>
      ]_vars

\* C14 witness: with maxHp = 100 and damage from crystals disabled, two
\* reductions from bossHp = 100 left bossHp = 90.
C14_Witness ==
    /\ maxHp = 100
    /\ Accepted("admin_hp_reduce")
    /\ ~hpDamageEnabled
    /\ Len(emitted) = 3
    /\ emitted[1].bossHp = 100
    /\ emitted[2].bossHp = 95
    /\ emitted[2].recentEvents[1].type = "admin_hp_reduce"
    /\ bossHp = 90
    /\ response.damage = 5

\* C15: a slot report and a reset commit, broadcast and respond in the
\* step that handles the request while the lighting request they issue
\* (and every earlier one) is still outstanding; the completion of a
\* lighting request, whatever its outcome, leaves GameState, the
\* broadcasts and the last response as they are, and sends at most one
\* request, which is the next one of the sequence and never a copy of the
\* one that completed.
C15_FireAndForget ==
    [][/\ \A op \in {"event", "admin_reset"} :
             AcceptedStep(op) =>
                /\ emitted' = Append(emitted, getState')
                /\ response'.status = 200
                /\ wledPending \subseteq wledPending'
                /\ WLED_URL # "" =>
                      /\ Len(wledSent') = Len(wledSent) + 1
                      /\ Len(wledSent') \in wledPending'
       /\ lastReq'.op = "wled_callback" =>
             /\ UNCHANGED <<stateVars, emitted, observer, response, now>>
             /\ IsPrefix(wledSent, wledSent')
             /\ Len(wledSent') <= Len(wledSent) + 1
             /\ \A j \in Len(wledSent) + 1..Len(wledSent') :
                   wledSent'[j].kind # wledSent[lastReq'.body.id].kind
             /\ lastReq'.body.id \notin wledPending'
      ]_vars

\* C15 witness: the first lighting request of a slot report completed
\* after the report was answered; the broadcast of the report is still the
\* only one and equals the state, and the next lighting request is
\* outstanding.
C15_Witness ==
    /\ lastReq.op = "wled_callback"
    /\ wledSent[lastReq.body.id].kind = "step1"
    /\ response.status = 200
    /\ crystalCount > 0
    /\ Len(emitted) = 1
    /\ emitted[1] = getState
    /\ wledPending # {}

\* C16: with WLED_URL empty no step issues a lighting request, has one
\* outstanding or sets the ready latch, and the slot report, the reset
\* and the manual lighting override still succeed: report and reset
\* commit their state and broadcast it, the override answers ok and
\* changes nothing.
C16_UnconfiguredNoop ==
    [][WLED_URL = "" =>
          /\ wledSent' = <<>>
          /\ wledPending' = {}
          /\ ~wledSegsReady'
          /\ WLED_URL' = ""
          /\ AcceptedStep("event") =>
                /\ response'.status = 200
                /\ \A i \in 1..SLOT_COUNT :
                      slots'[i] = ToBoolean(lastReq'.body.slots.elems[i])
                /\ emitted' = Append(emitted, getState')
          /\ lastReq'.op = "admin_reset" =>
                /\ response'.status = 200
                /\ slots' = [i \in 1..SLOT_COUNT |-> FALSE]
                /\ crystalCount' = 0
                /\ bossHp' = maxHp
                /\ emitted' = Append(emitted, getState')
          /\ lastReq'.op = "admin_wled" =>
                /\ response'.status = 200
                /\ UNCHANGED <<stateVars, emitted>>
      ]_vars

\* C16 witness: with WLED_URL empty, a slot report, a reset and a manual
\* override were all answered ok and nothing was sent to the device.
C16_Witness ==
    /\ WLED_URL = ""
    /\ Accepted("admin_wled")
    /\ Len(emitted) = 2
    /\ emitted[1].crystalCount > 0
    /\ emitted[2].recentEvents[1].type = "admin_reset"
    /\ emitted[2] = getState
    /\ wledSent = <<>>
    /\ wledPending = {}
    /\ ~wledSegsReady

\* The lighting requests of one kind sent so far.
SentOfKind(k) == {j \in 1..Len(wledSent) : wledSent[j].kind = k}

\* C17 (as stated): over the whole run step 1 is issued at most once and
\* step 2 at most once, also when further slot reports or resets arrive
\* before the step-2 completion of the first initialization has set the
\* ready latch.
C17_Original ==
    /\ Cardinality(SentOfKind("step1")) <= 1
    /\ Cardinality(SentOfKind("step2")) <= 1

\* The lighting requests issued by this step.
IssuedByStep == Len(wledSent) + 1..Len(wledSent')

\* C18: a step 2 is issued only by the completion of a step 1, which is
\* then no longer outstanding, and carries on that initialization (the
\* slots its update captured); the ready latch is set only by the
\* completion of a step 2; and a per-segment batch is issued only with
\* the latch set.
C18_InitOrder ==
    [][/\ \A j \in IssuedByStep :
             wledSent'[j].kind = "step2" =>
                /\ lastReq'.op = "wled_callback"
                /\ lastReq'.body.id \in wledPending
                /\ lastReq'.body.id \notin wledPending'
                /\ wledSent[lastReq'.body.id].kind = "step1"
                /\ wledSent'[j].slots = wledSent[lastReq'.body.id].slots
       /\ (wledSegsReady' /\ ~wledSegsReady) =>
             /\ lastReq'.op = "wled_callback"
             /\ lastReq'.body.id \in wledPending
             /\ lastReq'.body.id \notin wledPending'
             /\ wledSent[lastReq'.body.id].kind = "step2"
       /\ \A j \in IssuedByStep :
             wledSent'[j].kind = "batch" => wledSegsReady'
      ]_vars

\* C18 witness: step 1, then step 2, then the batch were issued, each by
\* the completion of the one before; the latch is set and only the batch
\* is outstanding.
C18_Witness ==
    /\ wledSegsReady
    /\ Len(wledSent) = 3
    /\ wledSent[1].kind = "step1"
    /\ wledSent[2].kind = "step2"
    /\ wledSent[3].kind = "batch"
    /\ wledPending = {3}
    /\ lastReq.op = "wled_callback"
    /\ lastReq.body.id = 2

\* C19: the ready latch, once set, stays set under every step, reset
\* included; and a slot report or reset handled with the latch set
\* issues exactly one lighting request, the batch for the slots it
\* committed (effect WLED_CANDLE_MULTI_FX for a filled slot, 0 for an
\* empty one, all SLOT_COUNT segments), and no step 1 or step 2.
C19_ReadyLatch ==
    [][/\ wledSegsReady => wledSegsReady'
       /\ \A op \in {"event", "admin_reset"} :
             (AcceptedStep(op) /\ wledSegsReady) =>
                /\ Len(wledSent') = Len(wledSent) + 1
                /\ IsPrefix(wledSent, wledSent')
                /\ LET req == wledSent'[Len(wledSent')]
                   IN  /\ req.kind = "batch"
                       /\ req.slots = slots'
                       /\ DOMAIN req.seg = 1..SLOT_COUNT
                       /\ \A n \in 1..SLOT_COUNT :
                             req.seg[n] = IF slots'[n]
                                          THEN WLED_CANDLE_MULTI_FX ELSE 0
      ]_vars

\* C19 witness: a reset handled after the one initialization had finished
\* left the latch set and issued the all-empty batch as the fourth
\* request, with no second step 1.
C19_Witness ==
    /\ Accepted("admin_reset")
    /\ wledSegsReady
    /\ Len(wledSent) = 4
    /\ SentOfKind("step1") = {1}
    /\ SentOfKind("step2") = {2}
    /\ wledSent[4].kind = "batch"
    /\ wledSent[4].slots = [i \in 1..SLOT_COUNT |-> FALSE]
    /\ \E n \in 1..SLOT_COUNT : wledSent[3].seg[n] = WLED_CANDLE_MULTI_FX

\* The slot vectors committed by the updates (every broadcast of the
\* lighting specification is that of a slot report or a reset) and those
\* of the batches sent.
SlotVectors ==
    {emitted[k].slots : k \in 1..Len(emitted)}
        \cup {wledSent[j].slots : j \in SentOfKind("batch")}
UpdatesFor(v) == {k \in 1..Len(emitted) : emitted[k].slots = v}
BatchesFor(v) == {j \in SentOfKind("batch") : wledSent[j].slots = v}

\* No more batches than updates, for every slot vector, and every batch
\* covers the SLOT_COUNT segments.
NoExtraBatch ==
    /\ \A v \in SlotVectors :
          Cardinality(BatchesFor(v)) <= Cardinality(UpdatesFor(v))
    /\ \A j \in SentOfKind("batch") : DOMAIN wledSent[j].seg = 1..SLOT_COUNT

\* With no lighting request outstanding, as many batches as updates for
\* every slot vector.
BatchesSettled ==
    wledPending = {} =>
        \A v \in SlotVectors :
            Cardinality(BatchesFor(v)) = Cardinality(UpdatesFor(v))

\* C20: with WLED_URL set and every lighting request eventually
\* completing, the n-th accepted slot report or reset leads to an n-th
\* batch; there are never more batches than updates for any slot vector;
\* and once nothing is outstanding every update has exactly one batch for
\* the slots it committed, also the updates that arrived while the
\* initialization was in flight.
C20_OneBatchPerUpdate ==
    /\ []NoExtraBatch
    /\ []BatchesSettled
    /\ \A n \in 1..MaxLightReqs :
          (Len(emitted) >= n) ~> (Cardinality(SentOfKind("batch")) >= n)

\* C20 witness: two updates arrived before the latch was set, each ran
\* its own steps, nothing is outstanding, and there is one batch for the
\* slots of each.
C20_Witness ==
    /\ wledPending = {}
    /\ Len(emitted) = 2
    /\ emitted[1].slots # emitted[2].slots
    /\ Cardinality(SentOfKind("step1")) = 2
    /\ wledSent[2].kind = "step1"
    /\ Cardinality(SentOfKind("batch")) = 2
    /\ Cardinality(BatchesFor(emitted[1].slots)) = 1
    /\ Cardinality(BatchesFor(emitted[2].slots)) = 1

\* The batch issued last.
LastBatch ==
    wledSent[CHOOSE j \in SentOfKind("batch") :
                \A i \in SentOfKind("batch") : i <= j]

\* C21 (as stated): batches are issued in the order of the updates that
\* triggered them, so that once no lighting request is outstanding the
\* batch issued last encodes the current slots (WLED_CANDLE_MULTI_FX for
\* each filled slot, 0 for each empty one), also when several updates
\* were queued behind an initialization in flight and the callbacks ran
\* in another order.
C21_Original ==
    (wledPending = {} /\ SentOfKind("batch") # {}) =>
        /\ LastBatch.slots = slots
        /\ \A n \in 1..SLOT_COUNT :
              LastBatch.seg[n] = IF slots[n] THEN WLED_CANDLE_MULTI_FX ELSE 0

====
